---- MODULE Spec2Model ----
(***************************************************************************)
(* Subscription lifecycle of backend/routers/subscriptions.py: the         *)
(* user_subscriptions table, the checkout and cancel endpoints and the     *)
(* Stripe webhook handler. Spec takes each handler as one atomic step;      *)
(* SpecConcurrent runs requests side by side, one store or provider call   *)
(* per step.                                                               *)
(***************************************************************************)
EXTENDS Integers, Sequences, FiniteSets, TLC

\* ---------------------------------------------------------------- bounds
\* Largest number of rows the table holds in the model.
MaxRows == 2
\* Largest reading of the wall clock (datetime.utcnow()).
MaxClock == 2
\* Number of requests in flight side by side in SpecConcurrent.
MaxTasks == 3
\* Number of events the provider delivers, and redelivers, in SpecRedelivery.
MaxDeliveries == 2
\* Number of checkout requests in flight side by side in SpecCheckouts.
MaxCheckouts == 2
\* Number of threads asking for the Supabase client in SpecSingleton.
MaxThreads == 3

\* ---------------------------------------------------------------- inputs
None == "None"
NoTime == <<>>

Users == {"u1", "u2"}
\* The users whose checkout and cancel requests are followed.
Requesters == {"u1"}

\* subscription_plans rows: plan id -> stripe_price_id (None: the free plan).
PlanPrice == [p1 |-> "price_123", p0 |-> None]
PlanIds == DOMAIN PlanPrice
\* plan ids a request may name; "px" is in no row of subscription_plans.
RequestedPlans == {"p1", "p0", "px"}

\* External subscription references the updated, deleted and payment_failed
\* events name; no checkout object of the pool below carries "sub_9".
Subs == {"sub_1", "sub_9"}

\* event["data"]["object"] of the checkout.session.completed events delivered.
CheckoutObjects ==
  { [user_id |-> "u1", plan_id |-> "p1", customer |-> "cus_1", subscription |-> "sub_1"],
    [user_id |-> "u1", plan_id |-> "p1", customer |-> None,    subscription |-> None],
    [user_id |-> "u2", plan_id |-> "p1", customer |-> "cus_2", subscription |-> "sub_2"],
    [user_id |-> None, plan_id |-> "p1", customer |-> "cus_1", subscription |-> "sub_1"],
    [user_id |-> "u1", plan_id |-> None, customer |-> "cus_1", subscription |-> "sub_1"] }

\* subscription["status"] values carried by customer.subscription.updated.
UpdatedStatuses == {"active", "canceled"}
\* subscription["current_period_start"], ["current_period_end"] (unix seconds).
UpdatedPeriods == { <<1, 2>> }
\* subscription.get("cancel_at_period_end", False): true, or the key is absent
\* (a false value is read as the absent key is).
Absent == "absent"
UpdatedCape == {"true", Absent}

\* event["type"] of the four branches of the handler.
EvCheckout == "checkout.session.completed"
EvUpdated == "customer.subscription.updated"
EvDeleted == "customer.subscription.deleted"
EvPaymentFailed == "invoice.payment_failed"

\* Event types the handler has no branch for.
OtherEventTypes == {"invoice.paid"}

\* Outcome of stripe.Webhook.construct_event.
VerifyOutcomes == {"ok", "bad_payload", "bad_signature"}

\* ----------------------------------------------------------------- state
VARIABLES
  rows,    \* the user_subscriptions table, in insertion order; id = position
  now,     \* the last reading of the clock
  last,    \* the last handled request and its HTTP status
  calls,   \* the provider (Stripe) API calls the last request issued
  tasks,   \* the requests in flight, each with its position and its locals
  supabase \* utils/supabase_client.py: SupabaseClient._instance, _lock, the
           \* module's _supabase_client and the instances constructed

vars == <<rows, now, last, calls, tasks, supabase>>

\* ------------------------------------------------------- store operations
\* supabase.table("user_subscriptions").insert(data).execute(): a new row with
\* the given columns; the remaining columns take the column defaults.
NewRow(id, data) ==
  [ id |-> id,
    user_id |-> data.user_id,
    plan_id |-> data.plan_id,
    stripe_customer_id |-> data.stripe_customer_id,
    stripe_subscription_id |-> data.stripe_subscription_id,
    status |-> data.status,
    current_period_start |-> NoTime,
    current_period_end |-> NoTime,
    cancel_at_period_end |-> FALSE,
    canceled_at |-> NoTime ]

\* The empty result of a query (response.data is falsy).
NoRow ==
  NewRow(0, [user_id |-> None, plan_id |-> None, stripe_customer_id |-> None,
             stripe_subscription_id |-> None, status |-> None])

Insert(rs, data) == Append(rs, NewRow(Len(rs) + 1, data))

\* .eq(column, value)...: whether row r passes every filter of the query;
\* filters is a record column |-> value.
Matches(r, filters) == \A k \in DOMAIN filters : r[k] = filters[k]

\* A row with the columns of data overwritten.
Merge(r, data) == [k \in DOMAIN r |-> IF k \in DOMAIN data THEN data[k] ELSE r[k]]

\* Variant: the update without its .eq() filter.
Update_NoFilter(rs, data, filters) ==
  [i \in 1..Len(rs) |-> Merge(rs[i], data)]

\* .update(data).eq(...).execute(): every row passing the filters is overwritten.
Update(rs, data, filters) ==
  [i \in 1..Len(rs) |-> IF Matches(rs[i], filters) THEN Merge(rs[i], data) ELSE rs[i]]

\* .select(...).eq(...).execute(): the positions of the rows passing the filters.
Select(rs, filters) == {i \in 1..Len(rs) : Matches(rs[i], filters)}

\* datetime.utcnow().isoformat() and datetime.fromtimestamp(ts).isoformat():
\* naive ISO strings, the first in UTC, the second in the server's local zone.
UtcIso(t) == <<"utc", t>>
LocalIso(ts) == <<"local", ts>>

\* What a handled request leaves behind: the endpoint, the kind of request
\* (event type, cancel mode, plan id), the injected fault and the HTTP status.
Req(op, kind, user, sub, fault, code) ==
  [op |-> op, kind |-> kind, user |-> user, sub |-> sub, fault |-> fault, code |-> code]

\* utils/supabase_client.py as loaded: no instance, the lock free.
NoInstance == 0
NoThread == 0
SupabaseLoaded ==
  [instance |-> NoInstance, lock |-> NoThread, client |-> NoInstance, initialized |-> {}]

\* ------------------------------------------------------------------ init
Init ==
  /\ rows = <<>>
  /\ now = 1
  /\ last = Req("start", None, None, None, "none", 0)
  /\ calls = <<>>
  /\ tasks = <<>>
  /\ supabase = SupabaseLoaded

\* --------------------------------------------------------------- webhook
\* Variant: a verification failure answered as a server error.
WebhookRejected_500(secret, verify) ==
  /\ ~secret \/ verify # "ok"
  /\ last' = Req("webhook", IF ~secret THEN "no_secret" ELSE verify,
                 None, None, "none", 500)
  /\ calls' = <<>>
  /\ UNCHANGED <<rows, now>>

\* POST /webhook when STRIPE_WEBHOOK_SECRET is unset (500), or when
\* construct_webhook_event raises (ValueError for an unparseable body, an
\* exception for a signature that does not verify): except Exception -> 400.
WebhookRejected(secret, verify) ==
  /\ ~secret \/ verify # "ok"
  /\ last' = Req("webhook", IF ~secret THEN "no_secret" ELSE verify,
                 None, None, "none", IF ~secret THEN 500 ELSE 400)
  /\ calls' = <<>>
  /\ UNCHANGED <<rows, now>>

\* Variant: the customer and subscription references exchanged.
CheckoutSubscriptionData_Swapped(session) ==
  [ user_id |-> session.user_id,
    plan_id |-> session.plan_id,
    stripe_customer_id |-> session.subscription,
    stripe_subscription_id |-> session.customer,
    status |-> "active" ]

\* The row written for a checkout.session.completed session object.
CheckoutSubscriptionData(session) ==
  [ user_id |-> session.user_id,
    plan_id |-> session.plan_id,
    stripe_customer_id |-> session.customer,
    stripe_subscription_id |-> session.subscription,
    status |-> "active" ]

\* Variant: the row is inserted whatever the metadata holds.
ApplyCheckoutCompleted_NoGuard(rs, session) ==
  Insert(rs, CheckoutSubscriptionData(session))

\* The table after the checkout.session.completed branch.
ApplyCheckoutCompleted(rs, session) ==
  IF session.user_id # None /\ session.plan_id # None
    THEN Insert(rs, CheckoutSubscriptionData(session))
    ELSE rs

\* POST /webhook, verified event of type checkout.session.completed.
WebhookCheckoutCompleted(session, storeOk) ==
  LET writes == session.user_id # None /\ session.plan_id # None
      failed == writes /\ ~storeOk
  IN /\ writes => Len(rows) < MaxRows
     /\ ~writes => storeOk
     /\ rows' = IF failed THEN rows ELSE ApplyCheckoutCompleted(rows, session)
     /\ last' = Req("webhook", "checkout.session.completed", session.user_id,
                    session.subscription, IF failed THEN "store" ELSE "none",
                    IF failed THEN 400 ELSE 200)
     /\ calls' = <<>>
     /\ UNCHANGED now

\* Variant: the update also clears canceled_at.
UpdatedData_ClearsCanceledAt(sub) ==
  [ status |-> sub.status,
    current_period_start |-> LocalIso(sub.current_period_start),
    current_period_end |-> LocalIso(sub.current_period_end),
    cancel_at_period_end |->
       IF sub.cancel_at_period_end = Absent THEN FALSE
       ELSE sub.cancel_at_period_end = "true",
    canceled_at |-> NoTime ]

\* update_data of the customer.subscription.updated branch.
UpdatedData(sub) ==
  [ status |-> sub.status,
    current_period_start |-> LocalIso(sub.current_period_start),
    current_period_end |-> LocalIso(sub.current_period_end),
    cancel_at_period_end |->
       IF sub.cancel_at_period_end = Absent THEN FALSE
       ELSE sub.cancel_at_period_end = "true" ]

\* The table after the customer.subscription.updated branch.
ApplyUpdated(rs, sub) ==
  Update(rs, UpdatedData(sub), [stripe_subscription_id |-> sub.id])

\* POST /webhook, verified event of type customer.subscription.updated.
WebhookSubscriptionUpdated(sub, storeOk) ==
  /\ rows' = IF storeOk THEN ApplyUpdated(rows, sub) ELSE rows
  /\ last' = Req("webhook", "customer.subscription.updated", None, sub.id,
                 IF storeOk THEN "none" ELSE "store", IF storeOk THEN 200 ELSE 400)
  /\ calls' = <<>>
  /\ UNCHANGED now

\* The update of the customer.subscription.deleted branch, read at clock t.
DeletedData(t) == [status |-> "canceled", canceled_at |-> UtcIso(t)]

\* Variant: the deleted branch removes the rows instead of updating them.
ApplyDeleted_HardDelete(rs, subId, t) ==
  LET Keep(r) == r.stripe_subscription_id # subId
  IN SelectSeq(rs, Keep)

\* The table after the customer.subscription.deleted branch.
ApplyDeleted(rs, subId, t) ==
  Update(rs, DeletedData(t), [stripe_subscription_id |-> subId])

\* Variant: a failure of the store write is swallowed and the event
\* acknowledged.
WebhookSubscriptionDeleted_SwallowsStoreError(subId, t, storeOk) ==
  /\ t >= now
  /\ now' = t
  /\ rows' = IF storeOk THEN ApplyDeleted(rows, subId, t) ELSE rows
  /\ last' = Req("webhook", "customer.subscription.deleted", None, subId,
                 IF storeOk THEN "none" ELSE "store", 200)
  /\ calls' = <<>>

\* POST /webhook, verified event of type customer.subscription.deleted.
WebhookSubscriptionDeleted(subId, t, storeOk) ==
  /\ t >= now
  /\ now' = t
  /\ rows' = IF storeOk THEN ApplyDeleted(rows, subId, t) ELSE rows
  /\ last' = Req("webhook", "customer.subscription.deleted", None, subId,
                 IF storeOk THEN "none" ELSE "store", IF storeOk THEN 200 ELSE 400)
  /\ calls' = <<>>

\* Variant: a failed payment also withdraws a requested end-of-period cancel.
PaymentFailedData_ResetsFlag == [status |-> "past_due", cancel_at_period_end |-> FALSE]

\* The update of the invoice.payment_failed branch.
PaymentFailedData == [status |-> "past_due"]

\* Variant: a payment failure for a reference no row carries records a row.
ApplyPaymentFailed_Creates(rs, subId) ==
  IF subId = None
    THEN rs
  ELSE IF Select(rs, [stripe_subscription_id |-> subId]) = {}
    THEN Insert(rs, [user_id |-> None, plan_id |-> None, stripe_customer_id |-> None,
                     stripe_subscription_id |-> subId, status |-> "past_due"])
  ELSE Update(rs, PaymentFailedData, [stripe_subscription_id |-> subId])

\* The table after the invoice.payment_failed branch; subId is
\* invoice.get("subscription"), None when the invoice names no subscription.
ApplyPaymentFailed(rs, subId) ==
  IF subId # None
    THEN Update(rs, PaymentFailedData, [stripe_subscription_id |-> subId])
    ELSE rs

\* POST /webhook, verified event of type invoice.payment_failed.
WebhookPaymentFailed(subId, storeOk) ==
  LET failed == subId # None /\ ~storeOk
  IN /\ subId = None => storeOk
     /\ rows' = IF failed THEN rows ELSE ApplyPaymentFailed(rows, subId)
     /\ last' = Req("webhook", "invoice.payment_failed", None, subId,
                    IF failed THEN "store" ELSE "none", IF failed THEN 400 ELSE 200)
     /\ calls' = <<>>
     /\ UNCHANGED now

\* Variant: an event type without a branch is refused.
WebhookOther_Rejects(type) ==
  /\ last' = Req("webhook", type, None, None, "none", 400)
  /\ calls' = <<>>
  /\ UNCHANGED <<rows, now>>

\* POST /webhook, verified event of a type no branch names: falls through
\* to the return.
WebhookOther(type) ==
  /\ last' = Req("webhook", type, None, None, "none", 200)
  /\ calls' = <<>>
  /\ UNCHANGED <<rows, now>>

UpdatedObjects ==
  { [id |-> s, status |-> st, current_period_start |-> p[1],
     current_period_end |-> p[2], cancel_at_period_end |-> c] :
       s \in Subs, st \in UpdatedStatuses, p \in UpdatedPeriods, c \in UpdatedCape }

\* A delivery handled from its arrival to its response with no other request
\* in between.
Webhook ==
  \/ \E secret \in BOOLEAN, verify \in VerifyOutcomes :
        WebhookRejected(secret, verify) /\ UNCHANGED <<tasks, supabase>>
  \/ \E session \in CheckoutObjects :
        WebhookCheckoutCompleted(session, TRUE) /\ UNCHANGED <<tasks, supabase>>
  \/ \E sub \in UpdatedObjects :
        WebhookSubscriptionUpdated(sub, TRUE) /\ UNCHANGED <<tasks, supabase>>
  \/ \E s \in Subs, t \in 1..MaxClock :
        WebhookSubscriptionDeleted(s, t, TRUE) /\ UNCHANGED <<tasks, supabase>>
  \/ \E s \in Subs \cup {None} :
        WebhookPaymentFailed(s, TRUE) /\ UNCHANGED <<tasks, supabase>>
  \/ \E type \in OtherEventTypes :
        WebhookOther(type) /\ UNCHANGED <<tasks, supabase>>

\* ---------------------------------------------------------------- cancel
\* A provider API call: the API, the object it names and its arguments.
Call(api, target, arg) == [api |-> api, target |-> target, arg |-> arg]

\* Variant: the two modes exchanged.
CancelSubscriptionCall_Inverted(subId, at_period_end) ==
  IF at_period_end
    THEN Call("Subscription.delete", subId, None)
    ELSE Call("Subscription.modify", subId, "cancel_at_period_end=True")

\* utils.stripe_client.cancel_subscription: the Stripe call it issues.
CancelSubscriptionCall(subId, at_period_end) ==
  IF at_period_end
    THEN Call("Subscription.modify", subId, "cancel_at_period_end=True")
    ELSE Call("Subscription.delete", subId, None)

\* .single().execute(): the one matching row; PostgREST answers an error
\* (raised as an exception) when the rows matching are none or several.
Single(rs, filters) ==
  LET m == Select(rs, filters)
  IN IF Cardinality(m) = 1
       THEN [raised |-> FALSE, data |-> rs[CHOOSE i \in m : TRUE]]
       ELSE [raised |-> TRUE, data |-> NoRow]

\* Variant: the status is set to canceled whatever the mode.
CancelData_AlwaysCanceled(immediately, t) ==
  [cancel_at_period_end |-> ~immediately, canceled_at |-> UtcIso(t), status |-> "canceled"]

\* update_data of cancel_my_subscription, the clock read at t.
CancelData(immediately, t) ==
  IF immediately
    THEN [cancel_at_period_end |-> FALSE, canceled_at |-> UtcIso(t), status |-> "canceled"]
    ELSE [cancel_at_period_end |-> TRUE, canceled_at |-> UtcIso(t)]

\* Variant: the update is filtered on the status, not on the id of the row.
ApplyCancel_ByStatus(rs, id, immediately, t) ==
  Update(rs, CancelData(immediately, t), [status |-> "active"])

\* The table after the update of cancel_my_subscription.
ApplyCancel(rs, id, immediately, t) ==
  Update(rs, CancelData(immediately, t), [id |-> id])

\* Variant: the row is updated before Stripe is called, so a failing call
\* leaves the update behind.
CancelMySubscription_WritesFirst(user, immediately, t, fault) ==
  LET sel == Single(rows, [user_id |-> user, status |-> "active"])
      kind == IF immediately THEN "immediately" ELSE "at_period_end"
      subscription == sel.data
      hasSub == ~sel.raised /\ subscription.stripe_subscription_id # None
  IN /\ fault \in {"none", "provider"}
     /\ fault = "provider" => hasSub
     /\ IF sel.raised
          THEN /\ last' = Req("cancel", kind, user, None, fault, 500)
               /\ calls' = <<>>
               /\ UNCHANGED <<rows, now>>
        ELSE IF ~hasSub
          THEN /\ last' = Req("cancel", kind, user, None, fault, 200)
               /\ calls' = <<>>
               /\ UNCHANGED <<rows, now>>
        ELSE /\ t >= now
             /\ now' = t
             /\ calls' = << CancelSubscriptionCall(
                              subscription.stripe_subscription_id, ~immediately) >>
             /\ rows' = ApplyCancel(rows, subscription.id, immediately, t)
             /\ last' = Req("cancel", kind, user, subscription.stripe_subscription_id,
                            fault, IF fault = "provider" THEN 500 ELSE 200)

\* POST /cancel. fault: "none" or "provider" (the Stripe call raises); the
\* store calls are taken to succeed.
CancelMySubscription(user, immediately, t, fault) ==
  LET sel == Single(rows, [user_id |-> user, status |-> "active"])
      kind == IF immediately THEN "immediately" ELSE "at_period_end"
      subscription == sel.data
      hasSub == ~sel.raised /\ subscription.stripe_subscription_id # None
  IN /\ fault \in {"none", "provider"}
     /\ fault = "provider" => hasSub
     /\ IF sel.raised
          THEN \* no row or several rows: .single() raises, except Exception
               /\ last' = Req("cancel", kind, user, None, fault, 500)
               /\ calls' = <<>>
               /\ UNCHANGED <<rows, now>>
        ELSE IF subscription = NoRow
          THEN /\ last' = Req("cancel", kind, user, None, fault, 404)
               /\ calls' = <<>>
               /\ UNCHANGED <<rows, now>>
        ELSE IF ~hasSub
          THEN /\ last' = Req("cancel", kind, user, None, fault, 200)
               /\ calls' = <<>>
               /\ UNCHANGED <<rows, now>>
        ELSE IF fault = "provider"
          THEN \* cancel_subscription raises: no update, except Exception
               /\ last' = Req("cancel", kind, user,
                              subscription.stripe_subscription_id, fault, 500)
               /\ calls' = << CancelSubscriptionCall(
                                subscription.stripe_subscription_id, ~immediately) >>
               /\ UNCHANGED <<rows, now>>
        ELSE /\ t >= now
             /\ now' = t
             /\ calls' = << CancelSubscriptionCall(
                              subscription.stripe_subscription_id, ~immediately) >>
             /\ rows' = ApplyCancel(rows, subscription.id, immediately, t)
             /\ last' = Req("cancel", kind, user, subscription.stripe_subscription_id,
                            fault, 200)

\* -------------------------------------------------------------- checkout
\* Variant: the session is created before the customer, for a placeholder.
CheckoutCalls_SessionFirst(user, plan_id, existing) ==
  LET reuse == existing # NoRow /\ existing.stripe_customer_id # None
      customer == IF reuse THEN existing.stripe_customer_id ELSE None
      create == Call("Customer.create", "cus_new", [user_id |-> user])
      session == Call("checkout.Session.create", customer,
                      [price |-> PlanPrice[plan_id], user_id |-> user, plan_id |-> plan_id])
  IN IF reuse THEN <<session>> ELSE <<session, create>>

\* The Stripe calls create_subscription_checkout_session issues for a plan
\* with a price, given the row .limit(1) returned (NoRow: none).
CheckoutCalls(user, plan_id, existing) ==
  LET reuse == existing # NoRow /\ existing.stripe_customer_id # None
      customer == IF reuse THEN existing.stripe_customer_id ELSE "cus_new"
      create == Call("Customer.create", "cus_new", [user_id |-> user])
      session == Call("checkout.Session.create", customer,
                      [price |-> PlanPrice[plan_id], user_id |-> user, plan_id |-> plan_id])
  IN IF reuse THEN <<session>> ELSE <<create, session>>

\* Variant: the free-plan check left out.
PlanPurchasable_Always(plan_id) == TRUE

\* "if not plan["stripe_price_id"]": whether the plan carries a price reference.
PlanPurchasable(plan_id) == PlanPrice[plan_id] # None

\* The response of POST /create-checkout-session and the Stripe calls issued
\* (a call that raises ends the request).
\* pick: the position of the row .limit(1) returns among the user's rows (0:
\* the user has none). fault: "none", "customer" (Customer.create raises) or
\* "session" (Session.create raises); the store calls are taken to succeed.
CheckoutResponse(user, plan_id, pick, fault) ==
  LET mine == Select(rows, [user_id |-> user])
      existing == IF pick = 0 THEN NoRow ELSE rows[pick]
      found == plan_id \in PlanIds
      priced == found /\ PlanPurchasable(plan_id)
      all == CheckoutCalls(user, plan_id, existing)
      issued == IF fault = "customer" THEN SubSeq(all, 1, 1) ELSE all
  IN /\ IF mine = {} THEN pick = 0 ELSE pick \in mine
     /\ fault \in {"none", "customer", "session"}
     /\ fault # "none" => priced
     /\ fault = "customer" => Len(all) = 2
     /\ IF ~found
          THEN \* .single() raises on no row, except Exception
               last' = Req("create_checkout", plan_id, user, None, fault, 500) /\ calls' = <<>>
        ELSE IF ~priced
          THEN last' = Req("create_checkout", plan_id, user, None, fault, 400) /\ calls' = <<>>
        ELSE /\ calls' = issued
             /\ last' = Req("create_checkout", plan_id, user, None, fault,
                            IF fault = "none" THEN 200 ELSE 500)

\* Variant: a checkout request that also records a pending row in the table.
CreateSubscriptionCheckoutSession_Writes(user, plan_id, pick, fault) ==
  /\ CheckoutResponse(user, plan_id, pick, fault)
  /\ rows' = IF last'.code = 200 /\ Len(rows) < MaxRows
               THEN Insert(rows, [user_id |-> user, plan_id |-> plan_id,
                                  stripe_customer_id |-> None,
                                  stripe_subscription_id |-> None,
                                  status |-> "incomplete"])
               ELSE rows
  /\ UNCHANGED now

\* POST /create-checkout-session: no store write on any path.
CreateSubscriptionCheckoutSession(user, plan_id, pick, fault) ==
  /\ CheckoutResponse(user, plan_id, pick, fault)
  /\ UNCHANGED <<rows, now>>

\* ------------------------------------------------------------------ next
CancelRequest ==
  \E u \in Requesters, imm \in BOOLEAN, t \in 1..MaxClock, f \in {"none", "provider"} :
     CancelMySubscription(u, imm, t, f) /\ UNCHANGED <<tasks, supabase>>

CheckoutRequest ==
  \E u \in Requesters, p \in RequestedPlans, k \in 0..MaxRows,
     f \in {"none", "customer", "session"} :
     CreateSubscriptionCheckoutSession(u, p, k, f) /\ UNCHANGED <<tasks, supabase>>

\* Every store call succeeds.
Next == Webhook \/ CancelRequest \/ CheckoutRequest

Spec == Init /\ [][Next]_vars

\* A verified delivery whose store write raises: except Exception -> 400.
WebhookStoreFault ==
  \/ \E session \in CheckoutObjects :
        WebhookCheckoutCompleted(session, FALSE) /\ UNCHANGED <<tasks, supabase>>
  \/ \E sub \in UpdatedObjects :
        WebhookSubscriptionUpdated(sub, FALSE) /\ UNCHANGED <<tasks, supabase>>
  \/ \E s \in Subs, t \in 1..MaxClock :
        WebhookSubscriptionDeleted(s, t, FALSE) /\ UNCHANGED <<tasks, supabase>>
  \/ \E s \in Subs :
        WebhookPaymentFailed(s, FALSE) /\ UNCHANGED <<tasks, supabase>>

\* Store writes of the webhook handler may fail.
NextStoreFaults == Next \/ WebhookStoreFault

SpecStoreFaults == Init /\ [][NextStoreFaults]_vars

\* subscription["status"] values of Stripe that the five of the data model do
\* not include (Stripe also has incomplete_expired and paused).
StripeOnlyStatuses == {"unpaid"}

StripeOnlyStatusObjects ==
  { [id |-> s, status |-> st, current_period_start |-> p[1],
     current_period_end |-> p[2], cancel_at_period_end |-> Absent] :
       s \in Subs, st \in StripeOnlyStatuses, p \in UpdatedPeriods }

\* A customer.subscription.updated delivery carrying such a status.
WebhookStripeOnlyStatus ==
  \E sub \in StripeOnlyStatusObjects :
     WebhookSubscriptionUpdated(sub, TRUE) /\ UNCHANGED <<tasks, supabase>>

NextProviderStatuses == Next \/ WebhookStripeOnlyStatus

\* The updated events carry any status Stripe has.
SpecProviderStatuses == Init /\ [][NextProviderStatuses]_vars

\* ------------------------------------------------------------------ read
\* What str(e).lower() of the exception .single() raises may hold: the text
\* the handler looks for ("not found" or "no rows"), or another text.
SingleErrorTexts == {"no rows", "other"}

\* GET /my-subscription. text: the text of the exception, when .single()
\* raises (no row or several rows pass the filters). The response body is
\* kept in last.data (NoRow: null).
GetMySubscription(user, text) ==
  LET sel == Single(rows, [user_id |-> user, status |-> "active"])
      code == IF sel.raised /\ text # "no rows" THEN 500 ELSE 200
  IN /\ ~sel.raised => text = "no rows"
     /\ last' = [data |-> sel.data]
                 @@ Req("get", IF sel.raised THEN text ELSE None, user,
                        sel.data.stripe_subscription_id, "none", code)
     /\ calls' = <<>>
     /\ UNCHANGED <<rows, now>>

ReadRequest ==
  \E u \in Users, text \in SingleErrorTexts :
     GetMySubscription(u, text) /\ UNCHANGED <<tasks, supabase>>

NextRead == Next \/ ReadRequest

\* The requests of Spec and the reads of the current subscription.
SpecRead == Init /\ [][NextRead]_vars

\* ------------------------------------------------------------ concurrency
\* Requests handled side by side (spec section 5: no coordination between
\* them): each store call and each Stripe call of a handler is one step, and
\* steps of different requests interleave freely.

\* A request in flight: the endpoint, the event type or cancel mode, the
\* caller, the event's data object, the position in the handler, the row the
\* handler has read (cancel) and the HTTP status once answered.
Task(op, kind, user, object) ==
  [op |-> op, kind |-> kind, user |-> user, object |-> object,
   pc |-> "received", row |-> NoRow, code |-> 0]

\* The requests that arrive: deliveries of the events about sub_1 and cancel
\* requests of its user.
TaskPool ==
  { Task("webhook", EvCheckout, None,
         [user_id |-> "u1", plan_id |-> "p1", customer |-> "cus_1",
          subscription |-> "sub_1"]),
    Task("webhook", EvUpdated, None,
         [id |-> "sub_1", status |-> "canceled", current_period_start |-> 1,
          current_period_end |-> 2, cancel_at_period_end |-> Absent]),
    Task("webhook", EvDeleted, None, [id |-> "sub_1"]),
    Task("webhook", EvPaymentFailed, None, [subscription |-> "sub_1"]),
    Task("cancel", "immediately", "u1", None),
    Task("cancel", "at_period_end", "u1", None) }

\* The requests arrive together at the empty table.
InitConcurrent ==
  /\ rows = <<>>
  /\ now = 1
  /\ last = Req("start", None, None, None, "none", 0)
  /\ calls = <<>>
  /\ tasks \in [1..MaxTasks -> TaskPool]
  /\ supabase = SupabaseLoaded
  /\ Cardinality({k \in 1..MaxTasks : tasks[k].kind = EvCheckout}) <= MaxRows

\* The request answered: its status recorded, its position "done".
Answered(k, code) == [tasks EXCEPT ![k].pc = "done", ![k].code = code]

\* stripe_webhook up to construct_webhook_event, the signature verifying.
DeliveryVerify(k) ==
  /\ tasks[k].op = "webhook" /\ tasks[k].pc = "received"
  /\ tasks' = [tasks EXCEPT ![k].pc = "verified"]
  /\ UNCHANGED <<rows, now, last, calls>>

\* stripe_webhook from the dispatch on event["type"] to the response: the
\* one store call of the branch.
DeliveryApply(k) ==
  /\ tasks[k].op = "webhook" /\ tasks[k].pc = "verified"
  /\ \/ /\ tasks[k].kind = EvCheckout
        /\ WebhookCheckoutCompleted(tasks[k].object, TRUE)
     \/ /\ tasks[k].kind = EvUpdated
        /\ WebhookSubscriptionUpdated(tasks[k].object, TRUE)
     \/ /\ tasks[k].kind = EvDeleted
        /\ \E t \in 1..MaxClock : WebhookSubscriptionDeleted(tasks[k].object.id, t, TRUE)
     \/ /\ tasks[k].kind = EvPaymentFailed
        /\ WebhookPaymentFailed(tasks[k].object.subscription, TRUE)
  /\ tasks' = Answered(k, last'.code)

\* cancel_my_subscription, the select: .single() raising is answered 500, a
\* row without external subscription reference 200 with nothing done.
CancelRead(k) ==
  LET sel == Single(rows, [user_id |-> tasks[k].user, status |-> "active"])
      code == IF sel.raised THEN 500 ELSE 200
  IN /\ tasks[k].op = "cancel" /\ tasks[k].pc = "received"
     /\ IF ~sel.raised /\ sel.data.stripe_subscription_id # None
          THEN /\ tasks' = [tasks EXCEPT ![k].pc = "call", ![k].row = sel.data]
               /\ UNCHANGED <<last, calls>>
          ELSE /\ tasks' = Answered(k, code)
               /\ last' = Req("cancel", tasks[k].kind, tasks[k].user, None, "none", code)
               /\ calls' = <<>>
     /\ UNCHANGED <<rows, now>>

\* cancel_my_subscription, the Stripe call (taken to succeed).
CancelCall(k) ==
  /\ tasks[k].op = "cancel" /\ tasks[k].pc = "call"
  /\ calls' = << CancelSubscriptionCall(tasks[k].row.stripe_subscription_id,
                                        tasks[k].kind # "immediately") >>
  /\ tasks' = [tasks EXCEPT ![k].pc = "write"]
  /\ UNCHANGED <<rows, now, last>>

\* cancel_my_subscription, the update by the id of the row read, the clock
\* read at t, and the response.
CancelWrite(k, t) ==
  /\ tasks[k].op = "cancel" /\ tasks[k].pc = "write"
  /\ t >= now
  /\ now' = t
  /\ rows' = ApplyCancel(rows, tasks[k].row.id, tasks[k].kind = "immediately", t)
  /\ last' = Req("cancel", tasks[k].kind, tasks[k].user,
                 tasks[k].row.stripe_subscription_id, "none", 200)
  /\ tasks' = Answered(k, 200)
  /\ UNCHANGED calls

NextConcurrent ==
  \/ \E k \in 1..MaxTasks : DeliveryVerify(k) /\ UNCHANGED supabase
  \/ \E k \in 1..MaxTasks : DeliveryApply(k) /\ UNCHANGED supabase
  \/ \E k \in 1..MaxTasks : CancelRead(k) /\ UNCHANGED supabase
  \/ \E k \in 1..MaxTasks : CancelCall(k) /\ UNCHANGED supabase
  \/ \E k \in 1..MaxTasks, t \in 1..MaxClock : CancelWrite(k, t) /\ UNCHANGED supabase

SpecConcurrent == InitConcurrent /\ [][NextConcurrent]_vars

\* ---------------------------------------------------- concurrent checkout
\* Checkout requests handled side by side, one store or Stripe call per step.

\* A checkout request in flight: the caller, the plan asked for, the row the
\* .limit(1) select returned and the customer reference resolved.
CheckoutTask(user, plan_id) ==
  [customer |-> None] @@ Task("create_checkout", plan_id, user, None)

CheckoutTaskPool ==
  { CheckoutTask("u1", "p1"), CheckoutTask("u2", "p1"),
    CheckoutTask("u1", "p0"), CheckoutTask("u1", "px") }

\* The tables the requests may find: empty, or u1's row of a completed
\* checkout, with or without customer reference.
CheckoutTables ==
  { <<>> } \cup
  { ApplyCheckoutCompleted(<<>>, session) :
      session \in {x \in CheckoutObjects : x.user_id = "u1" /\ x.plan_id # None} }

InitCheckouts ==
  /\ rows \in CheckoutTables
  /\ now = 1
  /\ last = Req("start", None, None, None, "none", 0)
  /\ calls = <<>>
  /\ tasks \in [1..MaxCheckouts -> CheckoutTaskPool]
  /\ supabase = SupabaseLoaded

\* The plan lookup and the free-plan check.
CheckoutPlan(k) ==
  LET plan_id == tasks[k].kind
      found == plan_id \in PlanIds
      code == IF ~found THEN 500 ELSE 400
  IN /\ tasks[k].op = "create_checkout" /\ tasks[k].pc = "received"
     /\ IF found /\ PlanPurchasable(plan_id)
          THEN /\ tasks' = [tasks EXCEPT ![k].pc = "select"]
               /\ UNCHANGED <<last, calls>>
          ELSE /\ tasks' = Answered(k, code)
               /\ last' = Req("create_checkout", plan_id, tasks[k].user, None, "none", code)
               /\ calls' = <<>>
     /\ UNCHANGED <<rows, now, supabase>>

\* Variant: the select also sees the customer another request of the same
\* user in flight has created, and reuses it.
CheckoutSelect_SeesInFlight(k, pick) ==
  LET others == {j \in 1..MaxCheckouts :
                   /\ j # k
                   /\ tasks[j].user = tasks[k].user
                   /\ tasks[j].customer # None}
  IN /\ tasks[k].op = "create_checkout" /\ tasks[k].pc = "select"
     /\ pick = 0
     /\ IF others # {}
          THEN tasks' = [tasks EXCEPT ![k].pc = "session",
                                      ![k].customer = tasks[CHOOSE j \in others : TRUE].customer]
          ELSE tasks' = [tasks EXCEPT ![k].pc = "customer"]
     /\ UNCHANGED <<rows, now, last, calls, supabase>>

\* The select of one row of the user (.limit(1); pick: its position, 0 when
\* the user has none) and the test of its stripe_customer_id.
CheckoutSelect(k, pick) ==
  LET mine == Select(rows, [user_id |-> tasks[k].user])
      existing == IF pick = 0 THEN NoRow ELSE rows[pick]
      reuse == existing # NoRow /\ existing.stripe_customer_id # None
  IN /\ tasks[k].op = "create_checkout" /\ tasks[k].pc = "select"
     /\ IF mine = {} THEN pick = 0 ELSE pick \in mine
     /\ tasks' = [tasks EXCEPT
                    ![k].row = existing,
                    ![k].pc = IF reuse THEN "session" ELSE "customer",
                    ![k].customer = IF reuse THEN existing.stripe_customer_id ELSE None]
     /\ UNCHANGED <<rows, now, last, calls, supabase>>

\* The id of the customer the Customer.create call of request k returns: a
\* new customer on every call.
NewCustomerId(k) == "cus_new_" \o ToString(k)

\* create_customer(email, name, metadata={"user_id": user_id}).
CheckoutCustomer(k) ==
  /\ tasks[k].op = "create_checkout" /\ tasks[k].pc = "customer"
  /\ calls' = << Call("Customer.create", NewCustomerId(k), [user_id |-> tasks[k].user]) >>
  /\ tasks' = [tasks EXCEPT ![k].pc = "session", ![k].customer = NewCustomerId(k)]
  /\ UNCHANGED <<rows, now, last, supabase>>

\* create_checkout_session(...) and the response.
CheckoutSession(k) ==
  /\ tasks[k].op = "create_checkout" /\ tasks[k].pc = "session"
  /\ calls' = << Call("checkout.Session.create", tasks[k].customer,
                      [price |-> PlanPrice[tasks[k].kind], user_id |-> tasks[k].user,
                       plan_id |-> tasks[k].kind]) >>
  /\ last' = Req("create_checkout", tasks[k].kind, tasks[k].user, None, "none", 200)
  /\ tasks' = Answered(k, 200)
  /\ UNCHANGED <<rows, now, supabase>>

NextCheckouts ==
  \/ \E k \in 1..MaxCheckouts : CheckoutPlan(k)
  \/ \E k \in 1..MaxCheckouts, pick \in 0..MaxRows : CheckoutSelect(k, pick)
  \/ \E k \in 1..MaxCheckouts : CheckoutCustomer(k)
  \/ \E k \in 1..MaxCheckouts : CheckoutSession(k)

SpecCheckouts == InitCheckouts /\ [][NextCheckouts]_vars

\* ------------------------------------------------------- supabase client
\* utils/supabase_client.py: threads constructing SupabaseClient() or calling
\* get_supabase(), one read or write of shared state per step.

\* A thread: the call it makes, its position, the instance local of __new__
\* and the object the call returned.
Thread(op) ==
  [op |-> op, pc |-> IF op = "get_supabase" THEN "g_check" ELSE "n_check",
   instance |-> NoInstance, result |-> NoInstance]

InitSingleton ==
  /\ rows = <<>>
  /\ now = 1
  /\ last = Req("start", None, None, None, "none", 0)
  /\ calls = <<>>
  /\ tasks \in [1..MaxThreads -> {Thread("SupabaseClient"), Thread("get_supabase")}]
  /\ supabase = SupabaseLoaded

\* get_supabase: if _supabase_client is None.
GetSupabaseCheck(k) ==
  /\ tasks[k].pc = "g_check"
  /\ tasks' = [tasks EXCEPT ![k].pc =
                 IF supabase.client = NoInstance THEN "n_check" ELSE "g_return"]
  /\ UNCHANGED supabase

\* __new__: the first test of cls._instance, outside the lock.
NewCheck(k) ==
  /\ tasks[k].pc = "n_check"
  /\ tasks' = [tasks EXCEPT ![k].pc =
                 IF supabase.instance = NoInstance THEN "n_lock" ELSE "n_return"]
  /\ UNCHANGED supabase

\* __new__: with cls._lock, entered once the lock is free.
NewLock(k) ==
  /\ tasks[k].pc = "n_lock"
  /\ supabase.lock = NoThread
  /\ supabase' = [supabase EXCEPT !.lock = k]
  /\ tasks' = [tasks EXCEPT ![k].pc = "n_check_locked"]

\* Variant: the test inside the lock left out.
NewCheckLocked_Skipped(k) ==
  /\ tasks[k].pc = "n_check_locked"
  /\ tasks' = [tasks EXCEPT ![k].pc = "n_initialize"]
  /\ UNCHANGED supabase

\* __new__: the second test of cls._instance, inside the lock.
NewCheckLocked(k) ==
  /\ tasks[k].pc = "n_check_locked"
  /\ tasks' = [tasks EXCEPT ![k].pc =
                 IF supabase.instance = NoInstance THEN "n_initialize" ELSE "n_unlock"]
  /\ UNCHANGED supabase

\* __new__: instance = super().__new__(cls); instance._initialize(), which
\* returns (ok) or raises; raising leaves the with block, releasing the lock,
\* and ends the call.
NewInitialize(k, ok) ==
  /\ tasks[k].pc = "n_initialize"
  /\ IF ok
       THEN /\ supabase' = [supabase EXCEPT !.initialized = @ \cup {k}]
            /\ tasks' = [tasks EXCEPT ![k].pc = "n_assign", ![k].instance = k]
       ELSE /\ supabase' = [supabase EXCEPT !.lock = NoThread]
            /\ tasks' = [tasks EXCEPT ![k].pc = "raised", ![k].instance = k]

\* __new__: cls._instance = instance.
NewAssign(k) ==
  /\ tasks[k].pc = "n_assign"
  /\ supabase' = [supabase EXCEPT !.instance = tasks[k].instance]
  /\ tasks' = [tasks EXCEPT ![k].pc = "n_unlock"]

\* __new__: the end of the with block.
NewUnlock(k) ==
  /\ tasks[k].pc = "n_unlock"
  /\ supabase' = [supabase EXCEPT !.lock = NoThread]
  /\ tasks' = [tasks EXCEPT ![k].pc = "n_return"]

\* __new__: return cls._instance; get_supabase goes on to its assignment.
NewReturn(k) ==
  /\ tasks[k].pc = "n_return"
  /\ tasks' = [tasks EXCEPT
                 ![k].result = supabase.instance,
                 ![k].pc = IF tasks[k].op = "get_supabase" THEN "g_assign" ELSE "done"]
  /\ UNCHANGED supabase

\* get_supabase: _supabase_client = SupabaseClient().
GetSupabaseAssign(k) ==
  /\ tasks[k].pc = "g_assign"
  /\ supabase' = [supabase EXCEPT !.client = tasks[k].result]
  /\ tasks' = [tasks EXCEPT ![k].pc = "g_return"]

\* get_supabase: return _supabase_client.
GetSupabaseReturn(k) ==
  /\ tasks[k].pc = "g_return"
  /\ tasks' = [tasks EXCEPT ![k].result = supabase.client, ![k].pc = "done"]
  /\ UNCHANGED supabase

NextSingleton ==
  \/ \E k \in 1..MaxThreads : GetSupabaseCheck(k) /\ UNCHANGED <<rows, now, last, calls>>
  \/ \E k \in 1..MaxThreads : NewCheck(k) /\ UNCHANGED <<rows, now, last, calls>>
  \/ \E k \in 1..MaxThreads : NewLock(k) /\ UNCHANGED <<rows, now, last, calls>>
  \/ \E k \in 1..MaxThreads : NewCheckLocked(k) /\ UNCHANGED <<rows, now, last, calls>>
  \/ \E k \in 1..MaxThreads, ok \in BOOLEAN :
        NewInitialize(k, ok) /\ UNCHANGED <<rows, now, last, calls>>
  \/ \E k \in 1..MaxThreads : NewAssign(k) /\ UNCHANGED <<rows, now, last, calls>>
  \/ \E k \in 1..MaxThreads : NewUnlock(k) /\ UNCHANGED <<rows, now, last, calls>>
  \/ \E k \in 1..MaxThreads : NewReturn(k) /\ UNCHANGED <<rows, now, last, calls>>
  \/ \E k \in 1..MaxThreads : GetSupabaseAssign(k) /\ UNCHANGED <<rows, now, last, calls>>
  \/ \E k \in 1..MaxThreads : GetSupabaseReturn(k) /\ UNCHANGED <<rows, now, last, calls>>

SpecSingleton == InitSingleton /\ [][NextSingleton]_vars

\* ------------------------------------------------------------ redelivery
\* The provider delivers each event until a delivery is acknowledged with a
\* 2xx response; the store write of a delivery may fail.

\* A delivery the provider still owes: whether a delivery of the event was
\* refused, and whether its store call went through.
Pending(task) == [refused |-> FALSE, applied |-> FALSE] @@ task

InitRedelivery ==
  /\ rows = <<>>
  /\ now = 1
  /\ last = Req("start", None, None, None, "none", 0)
  /\ calls = <<>>
  /\ tasks \in [1..MaxDeliveries -> {Pending(task) : task \in {x \in TaskPool : x.op = "webhook"}}]
  /\ Cardinality({k \in 1..MaxDeliveries : tasks[k].kind = EvCheckout}) <= MaxRows
  /\ supabase = SupabaseLoaded

\* stripe_webhook from the dispatch to the response, the store call going
\* through (storeOk) or raising; a response that is not 2xx leaves the event
\* with the provider, to be delivered again.
RedeliveryApply(k, storeOk) ==
  /\ tasks[k].pc = "verified"
  /\ \/ /\ tasks[k].kind = EvCheckout
        /\ WebhookCheckoutCompleted(tasks[k].object, storeOk)
     \/ /\ tasks[k].kind = EvUpdated
        /\ WebhookSubscriptionUpdated(tasks[k].object, storeOk)
     \/ /\ tasks[k].kind = EvDeleted
        /\ \E t \in 1..MaxClock : WebhookSubscriptionDeleted(tasks[k].object.id, t, storeOk)
     \/ /\ tasks[k].kind = EvPaymentFailed
        /\ WebhookPaymentFailed(tasks[k].object.subscription, storeOk)
  /\ tasks' = [tasks EXCEPT
                 ![k].pc = IF last'.code \in 200..299 THEN "done" ELSE "received",
                 ![k].code = last'.code,
                 ![k].refused = @ \/ last'.code \notin 200..299,
                 ![k].applied = storeOk]
  /\ UNCHANGED supabase

RedeliveryVerify(k) == DeliveryVerify(k) /\ UNCHANGED supabase

NextRedelivery ==
  \/ \E k \in 1..MaxDeliveries : RedeliveryVerify(k)
  \/ \E k \in 1..MaxDeliveries : RedeliveryApply(k, TRUE)
  \/ \E k \in 1..MaxDeliveries : RedeliveryApply(k, FALSE)

\* The provider keeps delivering what was not acknowledged, and the store
\* does not fail for ever.
FairRedelivery ==
  \A k \in 1..MaxDeliveries :
     /\ WF_vars(RedeliveryVerify(k))
     /\ SF_vars(RedeliveryApply(k, TRUE))

SpecRedelivery == InitRedelivery /\ [][NextRedelivery]_vars /\ FairRedelivery

\* ---------------------------------------------------------------- claims
\* The positions of the rows carrying external subscription reference s.
RowsOf(rs, s) == {i \in 1..Len(rs) : rs[i].stripe_subscription_id = s}

\* C1: in every reachable state an external subscription reference is carried
\* by at most one row, however often its checkout.session.completed event is
\* delivered.
C1_OneRowPerSubscriptionRef ==
  \A i, j \in 1..Len(rows) :
     ( /\ rows[i].stripe_subscription_id # None
       /\ rows[i].stripe_subscription_id = rows[j].stripe_subscription_id )
     => i = j

\* C2: a verified updated, deleted or payment_failed event whose external
\* subscription reference is carried by no row (the store call itself not
\* failing) leaves the table as it was and is answered 200.
C2_UnknownRefIsNoOp ==
  [][ ( /\ last'.op = "webhook"
        /\ last'.kind \in {EvUpdated, EvDeleted, EvPaymentFailed}
        /\ last'.fault = "none"
        /\ RowsOf(rows, last'.sub) = {} \/ last'.sub = None )
      => (rows' = rows /\ last'.code = 200) ]_vars

\* C2 witness: an event for the unknown reference sub_9 was acknowledged
\* while the table held rows.
C2_Witness ==
  /\ last.op = "webhook"
  /\ last.kind \in {EvUpdated, EvDeleted, EvPaymentFailed}
  /\ last.sub = "sub_9"
  /\ last.code = 200
  /\ Len(rows) >= 1

\* C3: a deleted event for a stored reference leaves its rows canceled with
\* canceled-at set, and a second deleted event for the same reference, coming
\* right after the first, leaves those rows exactly as they were.
C3_DeletedIdempotent ==
  [][ ( /\ last'.op = "webhook"
        /\ last'.kind = EvDeleted
        /\ last'.code = 200 )
      => \A i \in RowsOf(rows, last'.sub) :
           /\ rows'[i].status = "canceled"
           /\ rows'[i].canceled_at # NoTime
           /\ ( last.op = "webhook" /\ last.kind = EvDeleted
                /\ last.code = 200 /\ last.sub = last'.sub )
              => rows'[i] = rows[i] ]_vars

\* The positions of user u's rows with status active.
ActiveRows(rs, u) == {i \in 1..Len(rs) : rs[i].user_id = u /\ rs[i].status = "active"}

\* A cancel request of the given mode by user u whose one active row, at
\* position i, carries an external subscription reference; no call fails.
CancelOf(kind, u, i) ==
  /\ last'.op = "cancel"
  /\ last'.kind = kind
  /\ last'.user = u
  /\ last'.fault = "none"
  /\ ActiveRows(rows, u) = {i}
  /\ rows[i].stripe_subscription_id # None

\* The effect of cancel(user, immediately=false): Stripe is asked to cancel at
\* the period end, the row gets cancel_at_period_end and keeps status active.
EndOfPeriodCancelEffect ==
  \A u \in Users, i \in 1..Len(rows) :
     CancelOf("at_period_end", u, i)
     => /\ last'.code = 200
        /\ calls' = << Call("Subscription.modify", rows[i].stripe_subscription_id,
                            "cancel_at_period_end=True") >>
        /\ rows'[i].cancel_at_period_end = TRUE
        /\ rows'[i].status = "active"

\* Row i was left active by the end-of-period cancel just handled.
JustCancelledAtPeriodEnd(i) ==
  /\ last.op = "cancel" /\ last.kind = "at_period_end" /\ last.code = 200
  /\ last.sub # None
  /\ rows[i].user_id = last.user
  /\ rows[i].stripe_subscription_id = last.sub
  /\ rows[i].status = "active"
  /\ rows[i].cancel_at_period_end

\* C4 as claimed: the effect above, and after it the row's status changes only
\* when a deleted or updated event for its subscription is applied.
C4_ActiveUntilDeletedOrUpdated ==
  [][ /\ EndOfPeriodCancelEffect
      /\ \A i \in 1..Len(rows) :
           (JustCancelledAtPeriodEnd(i) /\ rows'[i].status # "active")
           => /\ last'.op = "webhook"
              /\ last'.kind \in {EvDeleted, EvUpdated}
              /\ last'.sub = rows[i].stripe_subscription_id ]_vars

\* C4 as amended: the effect above, and the status of an active row flagged
\* cancel_at_period_end changes only when a deleted, updated or payment_failed
\* event for its subscription, or an immediate cancel by its user, is applied.
C4_EndOfPeriodCancel ==
  [][ /\ EndOfPeriodCancelEffect
      /\ \A i \in 1..Len(rows) :
           ( /\ rows[i].status = "active"
             /\ rows[i].cancel_at_period_end
             /\ rows'[i].status # "active" )
           => \/ /\ last'.op = "webhook"
                 /\ last'.kind \in {EvDeleted, EvUpdated, EvPaymentFailed}
                 /\ last'.sub = rows[i].stripe_subscription_id
              \/ /\ last'.op = "cancel"
                 /\ last'.kind = "immediately"
                 /\ last'.user = rows[i].user_id ]_vars

\* C4 witness: an end-of-period cancel has just succeeded and left the row
\* active, flagged, with Stripe asked to modify the subscription.
C4_Witness ==
  /\ last.op = "cancel" /\ last.kind = "at_period_end" /\ last.code = 200
  /\ calls = << Call("Subscription.modify", last.sub, "cancel_at_period_end=True") >>
  /\ \E i \in 1..Len(rows) :
        /\ rows[i].user_id = last.user
        /\ rows[i].stripe_subscription_id = last.sub
        /\ rows[i].status = "active"
        /\ rows[i].cancel_at_period_end

\* C5: cancel(user, immediately=true), for a user whose one active row carries
\* an external subscription reference, asks Stripe to delete the subscription
\* and in the same step sets the row canceled with canceled-at set.
C5_ImmediateCancel ==
  [][ \A u \in Users, i \in 1..Len(rows) :
        CancelOf("immediately", u, i)
        => /\ last'.code = 200
           /\ calls' = << Call("Subscription.delete",
                               rows[i].stripe_subscription_id, None) >>
           /\ rows'[i].status = "canceled"
           /\ rows'[i].canceled_at # NoTime ]_vars

\* C5 witness: an immediate cancel has just succeeded on a row that no deleted
\* event had touched (its canceled-at is the cancel's own clock reading).
C5_Witness ==
  /\ last.op = "cancel" /\ last.kind = "immediately" /\ last.code = 200
  /\ calls = << Call("Subscription.delete", last.sub, None) >>
  /\ \E i \in 1..Len(rows) :
        /\ rows[i].user_id = last.user
        /\ rows[i].stripe_subscription_id = last.sub
        /\ rows[i].status = "canceled"
        /\ rows[i].canceled_at = UtcIso(now)

\* C6: a checkout request for a plan without a price reference makes no
\* Stripe call and, the plan lookup succeeding, is answered 400.
C6_FreePlanNoProviderCall ==
  ( /\ last.op = "create_checkout"
    /\ last.kind \in PlanIds
    /\ PlanPrice[last.kind] = None )
  => /\ calls = <<>>
     /\ last.fault = "none" => last.code = 400

\* C6 witness: a checkout request for the free plan p0 was refused.
C6_Witness ==
  /\ last.op = "create_checkout"
  /\ last.kind = "p0"
  /\ last.code = 400
  /\ calls = <<>>

\* C7: no checkout request, whatever its outcome, changes the table.
C7_CheckoutWritesNothing ==
  [][ last'.op = "create_checkout" => rows' = rows ]_vars

\* C7 witness: a checkout request succeeded, its session created, while the
\* table held a row.
C7_Witness ==
  /\ last.op = "create_checkout"
  /\ last.code = 200
  /\ Len(calls) >= 1
  /\ calls[Len(calls)].api = "checkout.Session.create"
  /\ Len(rows) >= 1

\* C8: a delivery whose signature does not verify, or whose body does not
\* parse, is answered 4xx and changes no row.
C8_RejectedDeliveryChangesNothing ==
  [][ ( /\ last'.op = "webhook"
        /\ last'.kind \in {"bad_payload", "bad_signature"} )
      => /\ last'.code \in 400..499
         /\ rows' = rows ]_vars

\* C8 witness: a delivery with a bad signature was refused while the table
\* held a row.
C8_Witness ==
  /\ last.op = "webhook"
  /\ last.kind = "bad_signature"
  /\ last.code = 400
  /\ Len(rows) >= 1

\* C9: a verified event of a type without a branch is answered 200 and
\* changes no row.
C9_OtherTypeAcknowledged ==
  [][ ( /\ last'.op = "webhook"
        /\ last'.kind \in OtherEventTypes )
      => /\ last'.code = 200
         /\ rows' = rows ]_vars

\* C9 witness: such an event was acknowledged while the table held a row.
C9_Witness ==
  /\ last.op = "webhook"
  /\ last.kind \in OtherEventTypes
  /\ last.code = 200
  /\ Len(rows) >= 1

\* C10: a verified checkout.session.completed event carrying a user id and a
\* plan id, the insert succeeding, is answered 200 and adds one row: status
\* active, the event's subscription and customer references, that user id and
\* plan id.
C10_CheckoutCompletedCreatesRow ==
  [][ \A session \in CheckoutObjects :
        ( /\ last'.kind = EvCheckout
          /\ session.user_id # None
          /\ session.plan_id # None
          /\ WebhookCheckoutCompleted(session, TRUE) )
        => /\ last'.code = 200
           /\ Len(rows') = Len(rows) + 1
           /\ \A i \in 1..Len(rows) : rows'[i] = rows[i]
           /\ LET r == rows'[Len(rows')]
              IN /\ r.status = "active"
                 /\ r.stripe_subscription_id = session.subscription
                 /\ r.stripe_customer_id = session.customer
                 /\ r.user_id = session.user_id
                 /\ r.plan_id = session.plan_id ]_vars

\* C10 witness: the event for sub_1 was applied and its row is in the table.
C10_Witness ==
  /\ last.op = "webhook" /\ last.kind = EvCheckout /\ last.code = 200
  /\ last.sub = "sub_1"
  /\ Len(rows) >= 1
  /\ rows[Len(rows)].stripe_subscription_id = "sub_1"
  /\ rows[Len(rows)].stripe_customer_id = "cus_1"
  /\ rows[Len(rows)].user_id = "u1"
  /\ rows[Len(rows)].status = "active"

\* C11: a cancel request by a user none of whose rows has status active is
\* answered 404 (no active subscription), makes no Stripe call and changes no
\* row.
C11_NoActiveRowIsNotFound ==
  [][ ( /\ last'.op = "cancel"
        /\ ActiveRows(rows, last'.user) = {} )
      => /\ last'.code = 404
         /\ calls' = <<>>
         /\ rows' = rows ]_vars

\* C12: a checkout or cancel request whose Stripe call raises is answered with
\* an error and leaves every row as it was.
C12_ProviderFailureNoLocalWrite ==
  [][ ( /\ last'.op \in {"cancel", "create_checkout"}
        /\ last'.fault \in {"provider", "customer", "session"} )
      => /\ last'.code \in 400..599
         /\ calls' # <<>>
         /\ rows' = rows ]_vars

\* C12 witness: a cancel request whose Stripe call raised was answered 500
\* and the user's row is still active, without canceled-at.
C12_Witness ==
  /\ last.op = "cancel" /\ last.fault = "provider" /\ last.code = 500
  /\ Len(calls) = 1
  /\ \E i \in 1..Len(rows) :
        /\ rows[i].user_id = last.user
        /\ rows[i].stripe_subscription_id = last.sub
        /\ rows[i].status = "active"
        /\ rows[i].canceled_at = NoTime

\* The ids of the rows of a table.
RowIds(rs) == {rs[i].id : i \in 1..Len(rs)}

\* C13: no step removes a row (the ids present stay present), and a cancel
\* request or a deleted event changes at most the status, canceled_at and
\* cancel_at_period_end columns of the rows it finds.
C13_RowsNeverRemoved ==
  [][ /\ RowIds(rows) \subseteq RowIds(rows')
      /\ ( \/ last'.op = "cancel"
           \/ last'.op = "webhook" /\ last'.kind = EvDeleted )
         => /\ Len(rows') = Len(rows)
            /\ \A i \in 1..Len(rows) :
                  [rows'[i] EXCEPT !.status = rows[i].status,
                                   !.canceled_at = rows[i].canceled_at,
                                   !.cancel_at_period_end = rows[i].cancel_at_period_end]
                  = rows[i] ]_vars

\* C13 witness: a deleted event was applied to a stored reference and its row
\* is still in the table, canceled.
C13_Witness ==
  /\ last.op = "webhook" /\ last.kind = EvDeleted /\ last.code = 200
  /\ \E i \in RowsOf(rows, last.sub) :
        /\ rows[i].status = "canceled"
        /\ rows[i].canceled_at = UtcIso(now)

\* C14: the table grows only when a checkout.session.completed event is
\* applied.
C14_OnlyCheckoutCompletedCreates ==
  [][ Len(rows') > Len(rows)
      => /\ last'.op = "webhook"
         /\ last'.kind = EvCheckout
         /\ Len(rows') = Len(rows) + 1 ]_vars

\* C14 witness: a payment_failed event was applied to a stored reference, its
\* row set past_due (an event for a reference no row carries is C2's case).
C14_Witness ==
  /\ last.op = "webhook" /\ last.kind = EvPaymentFailed /\ last.code = 200
  /\ \E i \in RowsOf(rows, last.sub) : rows[i].status = "past_due"

\* The statuses of the data model.
SubscriptionStatuses == {"trialing", "active", "past_due", "canceled", "incomplete"}

\* C15: in every reachable state the status of every row is one of trialing,
\* active, past_due, canceled, incomplete, whatever status the updated events
\* carry.
C15_StatusInEnum ==
  \A i \in 1..Len(rows) : rows[i].status \in SubscriptionStatuses

\* The latest (last inserted) of user u's active rows, NoRow when none.
CurrentRow(rs, u) ==
  IF ActiveRows(rs, u) = {}
    THEN NoRow
    ELSE rs[CHOOSE i \in ActiveRows(rs, u) : \A j \in ActiveRows(rs, u) : j <= i]

\* C16: a read of the current subscription is answered 200 with the user's
\* latest active row, or with null when the user has no active row (the read
\* changes no row, so the table is the one that was read).
C16_ReadYieldsLatestActive ==
  last.op = "get"
  => /\ last.code = 200
     /\ last.data = CurrentRow(rows, last.user)

\* C17: an updated or payment_failed event for the external subscription
\* reference of a row that a deleted event or a cancel request has set
\* canceled, with canceled-at (the provider's final state, so an event
\* carrying another status is an earlier one), leaves the status canceled.
C17_CanceledNotRegressed ==
  [][ \A i \in 1..Len(rows) :
        ( /\ rows[i].status = "canceled"
          /\ rows[i].canceled_at # NoTime
          /\ last'.op = "webhook"
          /\ last'.kind \in {EvUpdated, EvPaymentFailed}
          /\ last'.sub = rows[i].stripe_subscription_id )
        => rows'[i].status = "canceled" ]_vars

\* The table after the event of a delivery is applied (the clock read at 1).
ApplyEvent(rs, task) ==
  CASE task.kind = EvCheckout -> ApplyCheckoutCompleted(rs, task.object)
    [] task.kind = EvUpdated -> ApplyUpdated(rs, task.object)
    [] task.kind = EvDeleted -> ApplyDeleted(rs, task.object.id, 1)
    [] task.kind = EvPaymentFailed -> ApplyPaymentFailed(rs, task.object.subscription)

\* The table after the events of the deliveries ts are applied in their order.
RECURSIVE ApplyInOrder(_, _)
ApplyInOrder(rs, ts) ==
  IF ts = <<>> THEN rs ELSE ApplyInOrder(ApplyEvent(rs, Head(ts)), Tail(ts))

StatusesOf(rs) == [i \in 1..Len(rs) |-> rs[i].status]

AllAnswered == \A k \in 1..MaxTasks : tasks[k].pc = "done"

\* The requests are deliveries of events about one subscription, emitted in
\* the order of their positions: the checkout-completed event, then others.
EmittedInOrder ==
  /\ \A k \in 1..MaxTasks : tasks[k].op = "webhook"
  /\ tasks[1].kind = EvCheckout
  /\ \A k \in 2..MaxTasks : tasks[k].kind # EvCheckout

\* C18: once every delivery of such a set of events is answered, in whatever
\* order they were applied, the row has the status it has when the events are
\* applied in the order the provider emitted them.
C18_ArrivalOrderIndependent ==
  (EmittedInOrder /\ AllAnswered)
  => StatusesOf(rows) = StatusesOf(ApplyInOrder(<<>>, tasks))

\* C19: two deliveries of one checkout.session.completed event in flight side
\* by side, both answered 200, leave one row with the event's external
\* subscription reference.
C19_ConcurrentDeliveriesOneRow ==
  \A j, k \in 1..MaxTasks :
     ( /\ j # k
       /\ tasks[j].kind = EvCheckout /\ tasks[k].kind = EvCheckout
       /\ tasks[j].pc = "done" /\ tasks[k].pc = "done"
       /\ tasks[j].code = 200 /\ tasks[k].code = 200 )
     => Cardinality(RowsOf(rows, tasks[j].object.subscription)) = 1

\* C20: with cancel(user, immediately=true) and the deleted event for the same
\* subscription in flight side by side, the path that comes second is
\* answered 200 and leaves the row as the first path wrote it, status canceled
\* and canceled-at included: the deleted delivery applied after the cancel's
\* update, and the cancel's update after the deleted delivery.
C20_RedundantCancellationIsNoOp ==
  [][ \A c, d \in 1..MaxTasks :
        ( /\ tasks[c].op = "cancel" /\ tasks[c].kind = "immediately"
          /\ tasks[d].kind = EvDeleted
          /\ tasks[c].row.stripe_subscription_id = tasks[d].object.id
          /\ rows[tasks[c].row.id].status = "canceled"
          /\ \/ tasks[c].pc = "done" /\ tasks[d].pc = "verified" /\ tasks'[d].pc = "done"
             \/ tasks[d].pc = "done" /\ tasks[c].pc = "write" /\ tasks'[c].pc = "done" )
        => /\ last'.code = 200
           /\ rows'[tasks[c].row.id] = rows[tasks[c].row.id] ]_vars

\* The customer references user u's rows carry.
CustomerRefs(rs, u) ==
  {rs[i].stripe_customer_id : i \in Select(rs, [user_id |-> u])} \ {None}

\* C21: a successful checkout request reuses a customer reference of the
\* user's rows whenever one of them carries one, and creates a customer,
\* tagged with the user id, only when none does.
C21_ReusesAnyCustomerRef ==
  [][ ( /\ last'.op = "create_checkout"
        /\ last'.code = 200 )
      => IF CustomerRefs(rows, last'.user) # {}
           THEN /\ Len(calls') = 1
                /\ calls'[1].api = "checkout.Session.create"
                /\ calls'[1].target \in CustomerRefs(rows, last'.user)
           ELSE /\ Len(calls') = 2
                /\ calls'[1] = Call("Customer.create", "cus_new",
                                    [user_id |-> last'.user]) ]_vars

\* C22: for a user without rows and a plan with a price, a checkout request
\* no call of which fails issues Customer.create and then Session.create for
\* the created customer and the plan's price, the metadata being the caller's
\* user id and the requested plan id.
C22_CustomerThenSession ==
  [][ ( /\ last'.op = "create_checkout"
        /\ last'.fault = "none"
        /\ last'.kind \in PlanIds
        /\ PlanPrice[last'.kind] # None
        /\ Select(rows, [user_id |-> last'.user]) = {} )
      => /\ last'.code = 200
         /\ calls' = << Call("Customer.create", "cus_new", [user_id |-> last'.user]),
                        Call("checkout.Session.create", "cus_new",
                             [price |-> PlanPrice[last'.kind],
                              user_id |-> last'.user,
                              plan_id |-> last'.kind]) >> ]_vars

\* C22 witness: u1, holding no row, asked for plan p1 and got the session.
C22_Witness ==
  /\ last.op = "create_checkout" /\ last.kind = "p1" /\ last.user = "u1"
  /\ last.code = 200
  /\ Select(rows, [user_id |-> "u1"]) = {}
  /\ Len(calls) = 2
  /\ calls[2].arg.price = "price_123"

\* C23: an updated event applied to the rows carrying its external
\* subscription reference sets their status, current period start and end
\* (the event's unix seconds as naive local ISO time) and
\* cancel_at_period_end (false when the key is absent) and leaves their other
\* columns as they were.
C23_UpdatedOverwritesFourColumns ==
  [][ \A sub \in UpdatedObjects :
        ( /\ last'.kind = EvUpdated
          /\ last'.sub = sub.id
          /\ WebhookSubscriptionUpdated(sub, TRUE) )
        => /\ last'.code = 200
           /\ Len(rows') = Len(rows)
           /\ \A i \in RowsOf(rows, sub.id) :
                 rows'[i] =
                   [rows[i] EXCEPT
                      !.status = sub.status,
                      !.current_period_start = LocalIso(sub.current_period_start),
                      !.current_period_end = LocalIso(sub.current_period_end),
                      !.cancel_at_period_end = (sub.cancel_at_period_end = "true")] ]_vars

\* C23 witness: an updated event was applied to a row that had canceled-at
\* set; the row has the event's period and still its canceled-at.
C23_Witness ==
  /\ last.op = "webhook" /\ last.kind = EvUpdated /\ last.code = 200
  /\ \E i \in RowsOf(rows, last.sub) :
        /\ rows[i].current_period_start = LocalIso(1)
        /\ rows[i].status = "active"
        /\ rows[i].canceled_at # NoTime
        /\ rows[i].user_id = "u1"

\* C24: a payment_failed event is answered 200; applied to the rows carrying
\* the invoice's external subscription reference it sets their status
\* past_due and no other column, and an invoice naming no subscription
\* changes nothing.
C24_PaymentFailedSetsPastDue ==
  [][ ( /\ last'.op = "webhook"
        /\ last'.kind = EvPaymentFailed
        /\ last'.fault = "none" )
      => /\ last'.code = 200
         /\ Len(rows') = Len(rows)
         /\ last'.sub = None => rows' = rows
         /\ \A i \in RowsOf(rows, last'.sub) :
               last'.sub # None => rows'[i] = [rows[i] EXCEPT !.status = "past_due"] ]_vars

\* C24 witness: a payment_failed event set a row past_due that an
\* end-of-period cancel had flagged; the flag is still set.
C24_Witness ==
  /\ last.op = "webhook" /\ last.kind = EvPaymentFailed /\ last.code = 200
  /\ \E i \in RowsOf(rows, last.sub) :
        /\ rows[i].status = "past_due"
        /\ rows[i].cancel_at_period_end

\* C25: a delivery whose store call raises is answered with a status outside
\* 2xx, changes no row and stays with the provider for redelivery; and, the
\* provider redelivering and the store not failing for ever, every event's
\* store call eventually goes through and the event is acknowledged.
C25_StoreFailureRetried ==
  /\ [][ \A k \in 1..MaxDeliveries :
           ( /\ tasks[k].pc = "verified"
             /\ tasks'[k].pc # "verified"
             /\ ~tasks'[k].applied )
           => /\ last'.code \notin 200..299
              /\ rows' = rows
              /\ tasks'[k].pc = "received" ]_vars
  /\ \A k \in 1..MaxDeliveries :
        (tasks[k].pc # "done") ~> (tasks[k].pc = "done" /\ tasks[k].applied)

\* C25 witness: the deleted event for sub_1 was refused once, delivered again
\* and applied: its row is canceled.
C25_Witness ==
  \E k \in 1..MaxDeliveries :
     /\ tasks[k].kind = EvDeleted
     /\ tasks[k].pc = "done" /\ tasks[k].refused /\ tasks[k].applied
     /\ \E i \in RowsOf(rows, tasks[k].object.id) : rows[i].status = "canceled"

\* C26: nothing keeps two checkout requests of one user apart: of any two
\* requests of a user that found no customer reference and have passed the
\* customer step, each has created a customer of its own, tagged with the
\* user, so the user has two distinct customers at the provider.
C26_EachRequestCreatesCustomer ==
  \A j, k \in 1..MaxCheckouts :
     ( /\ j # k
       /\ tasks[j].user = tasks[k].user
       /\ tasks[j].pc \in {"session", "done"} /\ tasks[j].code \in {0, 200}
       /\ tasks[k].pc \in {"session", "done"} /\ tasks[k].code \in {0, 200}
       /\ tasks[j].row.stripe_customer_id = None
       /\ tasks[k].row.stripe_customer_id = None )
     => /\ tasks[j].customer # None
        /\ tasks[k].customer # None
        /\ tasks[j].customer # tasks[k].customer

\* C26 witness: two checkout requests of u1, who has no row, are both
\* answered 200, each with its own new customer.
C26_Witness ==
  /\ rows = <<>>
  /\ \A k \in 1..2 :
        /\ tasks[k].user = "u1" /\ tasks[k].pc = "done" /\ tasks[k].code = 200
        /\ tasks[k].customer = NewCustomerId(k)
  /\ tasks[1].customer # tasks[2].customer

\* C27: under every interleaving of the threads, _initialize has returned
\* for at most one instance, and every call that has returned has returned
\* that instance.
C27_SingletonInitializedOnce ==
  /\ Cardinality(supabase.initialized) <= 1
  /\ \A k \in 1..MaxThreads :
        tasks[k].pc = "done"
        => /\ tasks[k].result # NoInstance
           /\ tasks[k].result \in supabase.initialized
           /\ \A j \in 1..MaxThreads :
                 tasks[j].pc = "done" => tasks[j].result = tasks[k].result

\* C27 witness: a constructor call and a get_supabase call have both returned
\* the one instance after another thread's _initialize had raised, and two
\* threads had passed the first test of cls._instance.
C27_Witness ==
  /\ Cardinality({k \in 1..MaxThreads : tasks[k].instance # NoInstance}) >= 2
  /\ \E k \in 1..MaxThreads : tasks[k].pc = "raised"
  /\ \E j, k \in 1..MaxThreads :
        /\ tasks[j].op = "SupabaseClient" /\ tasks[j].pc = "done"
        /\ tasks[k].op = "get_supabase" /\ tasks[k].pc = "done"
        /\ tasks[j].result = tasks[k].result
        /\ tasks[j].result # NoInstance

\* C28: in every reachable state a row whose status is canceled has
\* canceled-at set, whichever operation set the status.
C28_CanceledHasCanceledAt ==
  \A i \in 1..Len(rows) :
     rows[i].status = "canceled" => rows[i].canceled_at # NoTime

\* C29: an updated, deleted or payment_failed event leaves every row with
\* another external subscription reference as it was, and a cancel request
\* changes at most the one active row of its user.
C29_MutationConfinedToKey ==
  [][ /\ ( /\ last'.op = "webhook"
           /\ last'.kind \in {EvUpdated, EvDeleted, EvPaymentFailed} )
         => /\ Len(rows') = Len(rows)
            /\ \A i \in 1..Len(rows) :
                  rows[i].stripe_subscription_id # last'.sub => rows'[i] = rows[i]
      /\ last'.op = "cancel"
         => /\ Len(rows') = Len(rows)
            /\ \A i \in 1..Len(rows) :
                  rows'[i] # rows[i]
                  => /\ rows[i].user_id = last'.user
                     /\ ActiveRows(rows, last'.user) = {i} ]_vars

\* C29 witness: u1's cancel request has set u1's row canceled while the
\* table holds an active row of u2.
C29_Witness ==
  /\ last.op = "cancel" /\ last.kind = "immediately" /\ last.code = 200
  /\ \E i, j \in 1..Len(rows) :
        /\ rows[i].user_id = last.user /\ rows[i].status = "canceled"
        /\ rows[i].canceled_at = UtcIso(now)
        /\ rows[j].user_id # last.user /\ rows[j].status = "active"
        /\ rows[j].canceled_at = NoTime

\* C30: a verified checkout.session.completed event whose metadata lacks the
\* user id or the plan id is answered 200 and inserts nothing; and a row is
\* only ever inserted by a checkout.session.completed event carrying both, so
\* no later updated, deleted or payment_failed event makes up for it.
C30_MissingMetadataAcknowledged ==
  [][ /\ \A session \in CheckoutObjects :
           ( /\ last'.kind = EvCheckout
             /\ session.user_id = None \/ session.plan_id = None
             /\ WebhookCheckoutCompleted(session, TRUE) )
           => /\ last'.code = 200
              /\ rows' = rows
      /\ Len(rows') > Len(rows)
         => /\ last'.kind = EvCheckout
            /\ rows'[Len(rows')].user_id # None
            /\ rows'[Len(rows')].plan_id # None ]_vars

\* C30 witness: the event for sub_1 without user id was acknowledged, and
\* the table holds no row for sub_1.
C30_Witness ==
  /\ last.op = "webhook" /\ last.kind = EvCheckout /\ last.code = 200
  /\ last.user = None /\ last.sub = "sub_1"
  /\ RowsOf(rows, "sub_1") = {}

====
